---- MODULE Spec2Model ----
(***************************************************************************)
(* Model of src/index.tsx: the coloring-book generator front end.          *)
(*                                                                         *)
(* The page is single-threaded JavaScript: a handler runs without          *)
(* interruption until it returns or reaches an `await`.  Each action below *)
(* is therefore one such uninterrupted stretch of code:                    *)
(*   - the form's submit listener (which runs generateColoringBook up to   *)
(*     its first await, the cover request),                                *)
(*   - the resumption of generateColoringBook after the cover response,    *)
(*   - its resumption after a page-batch response,                         *)
(*   - the click listener downloadAsPdf,                                   *)
(*   - the user editing the theme input field,                             *)
(*   - the click listener downloadAllJpgs,                                 *)
(*   - a timer set by downloadAllJpgs firing.                              *)
(* The timers write nothing the other handlers read, so the specification  *)
(* Spec is the page without the JPG button; JpgSpec is the page with it,   *)
(* for books of few pages.                                                 *)
(* Texts are sequences of one-character strings, so that trim, the         *)
(* whitespace replacement and parseInt are computed, not assumed.          *)
(***************************************************************************)
EXTENDS Integers, Sequences, FiniteSets, TLC

\* ------------------------------------------------------------------ bounds

\* How many of the texts of ThemeTexts the user types into the theme field.
NumThemes == 3

\* Largest page count the user types into the pages field.
MaxPages == 9

\* Largest page count the user types on the page with the JPG button.
MaxJpgPages == 2

\* Longest text put through the file-name rule on its own.
MaxTextLen == 3

Min(a, b) == IF a < b THEN a ELSE b

\* ---------------------------------------------------------------- texts

\* The characters /\s/ matches, of those the model types.
WhiteSpace == {" ", "\t", "\n"}

\* Texts the user may type into the theme field: nothing, a theme, blanks, and
\* themes with blanks around or inside them.
ThemeTexts ==
    << <<>>, <<"a">>, <<" ">>, <<" ", "a">>, <<"a", " ">>, <<"a", " ", "a">>,
       <<"a", " ", " ", "a">>, <<"\t", "a", "\n">> >>

\* Values the theme input field can hold.
Themes == {ThemeTexts[k] : k \in 1..Min(NumThemes, Len(ThemeTexts))}

RECURSIVE TrimStart(_)
TrimStart(s) ==
    IF s # <<>> /\ Head(s) \in WhiteSpace THEN TrimStart(Tail(s)) ELSE s

RECURSIVE TrimEnd(_)
TrimEnd(s) ==
    IF s # <<>> /\ s[Len(s)] \in WhiteSpace
    THEN TrimEnd(SubSeq(s, 1, Len(s) - 1))
    ELSE s

\* String.prototype.trim
Trim(s) == TrimEnd(TrimStart(s))

\* s.replace(/\s+/g, '_'): every maximal run of whitespace becomes one '_'.
RECURSIVE ReplaceWs(_)
ReplaceWs(s) ==
    IF s = <<>> THEN <<>>
    ELSE IF Head(s) \in WhiteSpace
         THEN <<"_">> \o ReplaceWs(TrimStart(s))
         ELSE <<Head(s)>> \o ReplaceWs(Tail(s))

\* The rule without its trim().
SanitizeNoTrim(s) == ReplaceWs(s)

\* themeInput.value.trim().replace(/\s+/g, '_')
Sanitize(s) == ReplaceWs(Trim(s))

\* ------------------------------------------------------------- parseInt

Digits == <<"0", "1", "2", "3", "4", "5", "6", "7", "8", "9">>

IsDigit(c) == \E d \in 1..10 : Digits[d] = c

DigitVal(c) == (CHOOSE d \in 1..10 : Digits[d] = c) - 1

RECURSIVE DigitPrefix(_)
DigitPrefix(s) ==
    IF s # <<>> /\ IsDigit(Head(s)) THEN <<Head(s)>> \o DigitPrefix(Tail(s)) ELSE <<>>

RECURSIVE DecimalValue(_)
DecimalValue(ds) ==
    IF ds = <<>> THEN 0
    ELSE 10 * DecimalValue(SubSeq(ds, 1, Len(ds) - 1)) + DigitVal(ds[Len(ds)])

\* parseInt(text, 10): leading whitespace skipped, an optional sign, then the
\* longest run of decimal digits; NaN when there is no digit.
ParseInt(s) ==
    LET t      == TrimStart(s)
        signed == t # <<>> /\ Head(t) \in {"-", "+"}
        neg    == t # <<>> /\ Head(t) = "-"
        ds     == DigitPrefix(IF signed THEN Tail(t) ELSE t)
    IN  IF ds = <<>> THEN [nan |-> TRUE, val |-> 0]
        ELSE [nan |-> FALSE, val |-> IF neg THEN 0 - DecimalValue(ds) ELSE DecimalValue(ds)]

\* (Number(n)).toString() for 0 <= n < 100
Decimal(n) ==
    IF n < 10 THEN <<Digits[n + 1]>> ELSE <<Digits[(n \div 10) + 1], Digits[(n % 10) + 1]>>

\* Values the pages input field can hold: the decimal numerals up to MaxPages
\* and texts that are no positive number.
PagesValues ==
    {Decimal(n) : n \in 0..MaxPages}
        \cup {<<>>, <<"x">>, <<"-", "1">>, <<" ", "2">>, <<"2", "x">>}

\* ------------------------------------------------------------------ state

VARIABLES
    themeInput,              \* themeInput.value
    isLoading,               \* the module-level flag
    generateBtnDisabled,     \* generateBtn.disabled
    spinnerHidden,           \* spinner.hidden
    btnText,                 \* btnText.textContent
    errorHidden,             \* errorMessage.hidden
    errorText,               \* errorMessage.textContent
    placeholderHidden,       \* galleryPlaceholder.hidden
    downloadControlsHidden,  \* downloadControls.hidden
    gallery,                 \* the children of #gallery, in document order
    pc,                      \* where generateColoringBook is suspended
    theme,                   \* generateColoringBook's parameter theme
    numPages,                \* generateColoringBook's parameter numPages
    i,                       \* the loop variable of the batch loop
    requests,                \* generateImages calls issued by the latest run
    responses,               \* their outcomes, in order of arrival
    outcome,                 \* how the latest run ended, "running" until then
    lastEvent,               \* the handler that produced this state
    pdfOut,                  \* the document produced by the handler, if any
    timers,                  \* the pending setTimeout callbacks, oldest first
    scheduled,               \* downloadLinks of the latest downloadAllJpgs call
    clickLog,                \* the links clicked by timers since that call
    san                      \* a text and what the file-name rule makes of it

vars == <<themeInput, isLoading, generateBtnDisabled, spinnerHidden, btnText,
          errorHidden, errorText, placeholderHidden, downloadControlsHidden,
          gallery, pc, theme, numPages, i, requests, responses, outcome,
          lastEvent, pdfOut, timers, scheduled, clickLog, san>>

\* What the handlers of the form and of the PDF button never touch.
jpgLog == <<scheduled, clickLog, san>>

\* No text is being put through the file-name rule.
NoText == [stage |-> 0, input |-> <<>>, once |-> <<>>, twice |-> <<>>]

NoDoc == [created |-> FALSE, pages |-> <<>>, addPageCalls |-> 0, saved |-> <<>>]

Label(msg, from, to) == [msg |-> msg, from |-> from, to |-> to]

InvalidInputMessage == "Please enter a valid theme and number of pages."

GenericErrorMessage == "An error occurred while creating your coloring book."

\* The page as it loads: isLoading is false (line 19); the fields are empty, the
\* gallery has no page, the placeholder shows, and the spinner, the error
\* message and the export controls are hidden, as the page's markup has them.
PageLoad ==
    /\ themeInput = <<>>
    /\ isLoading = FALSE
    /\ generateBtnDisabled = FALSE
    /\ spinnerHidden = TRUE
    /\ btnText = Label("Create Book", 0, 0)
    /\ errorHidden = TRUE
    /\ errorText = ""
    /\ placeholderHidden = FALSE
    /\ downloadControlsHidden = TRUE
    /\ gallery = <<>>
    /\ pc = "idle"
    /\ theme = <<>>
    /\ numPages = 0
    /\ i = 0
    /\ requests = <<>>
    /\ responses = <<>>
    /\ outcome = "none"
    /\ lastEvent = "init"
    /\ pdfOut = NoDoc
    /\ timers = <<>>
    /\ scheduled = <<>>
    /\ clickLog = <<>>

Init == PageLoad /\ san = NoText

\* ------------------------------------------------- the image service

\* numberOfImages of every page request is at most this (line 99).
batchSize == 4

\* What one generateImages call can come back with when n images were asked
\* for: a rejected promise, a response without generatedImages, or an ordered
\* list of 0..n images.
Outcomes(n) ==
    {[kind |-> "throw", n |-> 0], [kind |-> "absent", n |-> 0]}
        \cup {[kind |-> "images", n |-> k] : k \in 0..n}

\* generatedImages of the response to the reqNo-th request of the run: the
\* images are told apart by the request and their position in the list.
GeneratedImages(o, reqNo) == [p \in 1..o.n |-> [req |-> reqNo, pos |-> p]]

\* response.generatedImages && response.generatedImages.length > 0
HasImages(o) == o.kind = "images" /\ o.n > 0

CoverRequest(th) == [kind |-> "cover", numberOfImages |-> 1, theme |-> th]

PageRequest(th, n) == [kind |-> "pages", numberOfImages |-> n, theme |-> th]

\* --------------------------------------------------------- DOM helpers

\* setLoading(loading, message)
setLoading(loading, message) ==
    /\ isLoading' = loading
    /\ generateBtnDisabled' = loading
    /\ spinnerHidden' = ~loading
    /\ btnText' = IF ~loading THEN Label("Create Book", 0, 0) ELSE message

\* displayError(message)
displayError(message) ==
    /\ errorText' = message
    /\ errorHidden' = FALSE
    /\ placeholderHidden' = TRUE

\* The download attribute displayImage gives the page's link.
DownloadName(index, isCover) ==
    [theme |-> Sanitize(themeInput),
     kind  |-> IF isCover THEN "cover" ELSE "page",
     n     |-> IF isCover THEN 0 ELSE index]

\* displayImage(imageUrl, altText, index, isCover): the gallery g with the new
\* page container appended.
displayImage(g, imageUrl, altTheme, index, isCover) ==
    Append(g, [index    |-> index,
               isCover  |-> isCover,
               src      |-> imageUrl,
               alt      |-> altTheme,
               download |-> DownloadName(index, isCover)])

\* The page index counted within the batch only.
pageIndexInBatch(loopI, batchIndex) == batchIndex + 1

\* const pageIndex = i + batchIndex + 1
pageIndex(loopI, batchIndex) == loopI + batchIndex + 1

\* pagesResponse.generatedImages.forEach((image, batchIndex) => displayImage(..))
RECURSIVE renderBatch(_, _, _, _, _)
renderBatch(g, images, th, loopI, batchIndex) ==
    IF batchIndex >= Len(images) THEN g
    ELSE renderBatch(
             displayImage(g, images[batchIndex + 1], th,
                          pageIndex(loopI, batchIndex), FALSE),
             images, th, loopI, batchIndex + 1)

\* const pagesToGenerate = numPages - 1
pagesToGenerate(n) == n - 1

\* The batch size without the Math.min: every batch asks for batchSize images.
currentBatchSizeNoMin(n, loopI) == batchSize

\* const currentBatchSize = Math.min(batchSize, pagesToGenerate - i)
currentBatchSize(n, loopI) == Min(batchSize, pagesToGenerate(n) - loopI)

\* ------------------------------------------------ generateColoringBook

\* A run that leaves the busy state as it is when it ends.
FinallySkipped == UNCHANGED <<isLoading, generateBtnDisabled, spinnerHidden, btnText>>

\* finally { setLoading(false) }
Finally == setLoading(FALSE, Label("Create Book", 0, 0))

\* catch (error) { displayError(...) } finally { ... }: the run is over.
Fail ==
    /\ displayError(GenericErrorMessage)
    /\ Finally
    /\ pc' = "idle"
    /\ outcome' = "failed"
    /\ UNCHANGED <<gallery, downloadControlsHidden, i, requests>>

\* The loop ran to its end: downloadControls.hidden = false, then finally.
Succeed(g, loopI) ==
    /\ gallery' = g
    /\ i' = loopI
    /\ downloadControlsHidden' = FALSE
    /\ Finally
    /\ pc' = "idle"
    /\ outcome' = "success"
    /\ UNCHANGED <<errorHidden, errorText, placeholderHidden, requests>>

\* The loop turn that does not wait: the request of the batch after this one
\* is issued together with it.
IssueBatchPipelined(g, loopI) ==
    /\ gallery' = g
    /\ i' = loopI
    /\ setLoading(TRUE, Label("Creating pages", loopI + 1,
                              loopI + currentBatchSize(numPages, loopI)))
    /\ requests' = requests \o
                      <<PageRequest(theme, currentBatchSize(numPages, loopI)),
                        PageRequest(theme, batchSize)>>
    /\ pc' = "batch"
    /\ UNCHANGED <<errorHidden, errorText, placeholderHidden,
                   downloadControlsHidden, outcome>>

\* One more turn of the loop: the request of the batch starting at loopI is
\* issued and the function is suspended at its await.
IssueBatch(g, loopI) ==
    /\ gallery' = g
    /\ i' = loopI
    /\ setLoading(TRUE, Label("Creating pages", loopI + 1,
                              loopI + currentBatchSize(numPages, loopI)))
    /\ requests' = Append(requests,
                          PageRequest(theme, currentBatchSize(numPages, loopI)))
    /\ pc' = "batch"
    /\ UNCHANGED <<errorHidden, errorText, placeholderHidden,
                   downloadControlsHidden, outcome>>

\* for (let i = ..; i < pagesToGenerate; i += batchSize): the loop test with
\* the loop variable at loopI and the gallery at g.
BatchLoop(g, loopI) ==
    IF loopI < pagesToGenerate(numPages) THEN IssueBatch(g, loopI) ELSE Succeed(g, loopI)

\* The pending timers once the pages of their links have left the document.
Detached(ts) == [k \in DOMAIN ts |-> [ts[k] EXCEPT !.connected = FALSE]]

\* clearGallery without its first line: the pages stay in the gallery.
clearGalleryKeepsPages ==
    /\ UNCHANGED <<gallery, timers>>
    /\ errorHidden' = TRUE
    /\ downloadControlsHidden' = TRUE

\* clearGallery without its last line: the export controls stay as they are.
clearGalleryKeepsControls ==
    /\ gallery' = <<>>
    /\ timers' = Detached(timers)
    /\ errorHidden' = TRUE
    /\ UNCHANGED downloadControlsHidden

\* clearGallery(): gallery.innerHTML = '' takes every page out of the
\* document, the pages whose links pending timers hold included.
clearGallery ==
    /\ gallery' = <<>>
    /\ timers' = Detached(timers)
    /\ errorHidden' = TRUE
    /\ downloadControlsHidden' = TRUE

\* generateColoringBook(theme, numPages) up to its first await: the two
\* setLoading calls run back to back, the second one's label stays.
generateColoringBook(th, n) ==
    /\ setLoading(TRUE, Label("Creating cover...", 0, 0))
    /\ clearGallery
    /\ placeholderHidden' = TRUE
    /\ theme' = th
    /\ numPages' = n
    /\ i' = 0
    /\ requests' = <<CoverRequest(th)>>
    /\ responses' = <<>>
    /\ outcome' = "running"
    /\ pc' = "cover"
    /\ UNCHANGED errorText

\* The cover branch without its `else throw`: a response without images is
\* skipped and the batch loop entered.
CoverResponseContinues(o) ==
    /\ pc = "cover"
    /\ responses' = Append(responses, o)
    /\ IF HasImages(o)
       THEN BatchLoop(displayImage(gallery, GeneratedImages(o, Len(requests))[1],
                                   theme, 0, TRUE), 0)
       ELSE BatchLoop(gallery, 0)
    /\ lastEvent' = "coverResponse"
    /\ pdfOut' = NoDoc
    /\ UNCHANGED <<themeInput, theme, numPages, timers>>
    /\ UNCHANGED jpgLog

\* The cover request settles and generateColoringBook resumes (lines 89-128).
CoverResponse(o) ==
    /\ pc = "cover"
    /\ responses' = Append(responses, o)
    /\ IF HasImages(o)
       THEN BatchLoop(displayImage(gallery, GeneratedImages(o, Len(requests))[1],
                                   theme, 0, TRUE), 0)
       ELSE Fail
    /\ lastEvent' = "coverResponse"
    /\ pdfOut' = NoDoc
    /\ UNCHANGED <<themeInput, theme, numPages, timers>>
    /\ UNCHANGED jpgLog

\* The loop whose variable is never advanced: the same batch again and again.
BatchResponseNoAdvance(o) ==
    /\ pc = "batch"
    /\ o.n <= requests[Len(requests)].numberOfImages
    /\ responses' = Append(responses, o)
    /\ IF HasImages(o)
       THEN BatchLoop(renderBatch(gallery, GeneratedImages(o, Len(requests)),
                                  theme, i, 0),
                      i)
       ELSE Fail
    /\ lastEvent' = "batchResponse"
    /\ pdfOut' = NoDoc
    /\ UNCHANGED <<themeInput, theme, numPages, timers>>
    /\ UNCHANGED jpgLog

\* The loop body without its `else throw`: a batch without images is skipped
\* and the loop goes on to the next batch.
BatchResponseContinues(o) ==
    /\ pc = "batch"
    /\ o.n <= requests[Len(requests)].numberOfImages
    /\ responses' = Append(responses, o)
    /\ IF HasImages(o)
       THEN BatchLoop(renderBatch(gallery, GeneratedImages(o, Len(requests)),
                                  theme, i, 0),
                      i + batchSize)
       ELSE BatchLoop(gallery, i + batchSize)
    /\ lastEvent' = "batchResponse"
    /\ pdfOut' = NoDoc
    /\ UNCHANGED <<themeInput, theme, numPages, timers>>
    /\ UNCHANGED jpgLog

\* A page-batch request settles and the loop body resumes (lines 116-128).
BatchResponse(o) ==
    /\ pc = "batch"
    /\ o.n <= requests[Len(requests)].numberOfImages
    /\ responses' = Append(responses, o)
    /\ IF HasImages(o)
       THEN BatchLoop(renderBatch(gallery, GeneratedImages(o, Len(requests)),
                                  theme, i, 0),
                      i + batchSize)
       ELSE Fail
    /\ lastEvent' = "batchResponse"
    /\ pdfOut' = NoDoc
    /\ UNCHANGED <<themeInput, theme, numPages, timers>>
    /\ UNCHANGED jpgLog

\* ------------------------------------------------------ submit listener

\* The listener without its reentrancy guard.
SubmitRejectedNever == FALSE

\* if (isLoading) return;
SubmitRejected == isLoading

\* The validity test with numPages >= 0 for numPages > 0.
ValidRequestZeroAllowed(th, parsed) == th # <<>> /\ ~parsed.nan /\ parsed.val >= 0

\* theme && numPages > 0
ValidRequest(th, parsed) == th # <<>> /\ ~parsed.nan /\ parsed.val > 0

\* The form's submit listener, the pages field holding pagesValue.
Submit(pagesValue) ==
    LET th     == Trim(themeInput)
        parsed == ParseInt(pagesValue)
    IN  /\ pdfOut' = NoDoc
        /\ UNCHANGED themeInput
        /\ UNCHANGED jpgLog
        /\ IF SubmitRejected
           THEN /\ lastEvent' = "submitIgnored"
                /\ UNCHANGED <<isLoading, generateBtnDisabled, spinnerHidden, btnText,
                               errorHidden, errorText, placeholderHidden,
                               downloadControlsHidden, gallery, pc, theme, numPages,
                               i, requests, responses, outcome, timers>>
           ELSE IF ValidRequest(th, parsed)
           THEN /\ lastEvent' = "submitStart"
                /\ generateColoringBook(th, parsed.val)
           ELSE /\ lastEvent' = "submitInvalid"
                /\ displayError(InvalidInputMessage)
                /\ UNCHANGED <<isLoading, generateBtnDisabled, spinnerHidden, btnText,
                               downloadControlsHidden, gallery, pc, theme, numPages,
                               i, requests, responses, outcome, timers>>

\* The user types a new text into the theme field.
EditTheme(t) ==
    /\ themeInput # t
    /\ themeInput' = t
    /\ lastEvent' = "editTheme"
    /\ pdfOut' = NoDoc
    /\ UNCHANGED <<isLoading, generateBtnDisabled, spinnerHidden, btnText,
                   errorHidden, errorText, placeholderHidden,
                   downloadControlsHidden, gallery, pc, theme, numPages, i,
                   requests, responses, outcome, timers>>
    /\ UNCHANGED jpgLog

\* -------------------------------------------------------- downloadAsPdf

\* new jsPDF({...}): a document of one empty page.
newDoc == [created |-> TRUE, pages |-> << <<>> >>, addPageCalls |-> 0, saved |-> <<>>]

\* doc.addPage(): a new last page, which becomes the current one.
addPage(doc) ==
    [doc EXCEPT !.pages = Append(@, <<>>), !.addPageCalls = @ + 1]

\* doc.addImage(img.src, ...): the image is put on the current page.
addImage(doc, img) ==
    [doc EXCEPT !.pages[Len(doc.pages)] = Append(@, img)]

\* doc.save(name)
save(doc, name) == [doc EXCEPT !.saved = Append(@, name)]

\* document.querySelectorAll('.coloring-page:not(.book-cover) img')
coloringPages(g) ==
    LET pages == SelectSeq(g, LAMBDA p : ~p.isCover)
    IN  [k \in 1..Len(pages) |-> pages[k].src]

\* The loop without its `index > 0` test: a page is added before every image.
RECURSIVE addAllAlwaysAddPage(_, _, _)
addAllAlwaysAddPage(doc, imgs, index) ==
    IF index >= Len(imgs) THEN doc
    ELSE addAllAlwaysAddPage(addImage(addPage(doc), imgs[index + 1]), imgs, index + 1)

\* coloringPages.forEach((img, index) => { if (index > 0) addPage; addImage })
RECURSIVE addAll(_, _, _)
addAll(doc, imgs, index) ==
    IF index >= Len(imgs) THEN doc
    ELSE addAll(addImage(IF index > 0 THEN addPage(doc) ELSE doc, imgs[index + 1]),
                imgs, index + 1)

PdfName == [theme |-> Sanitize(themeInput), suffix |-> "_coloring_book.pdf"]

\* downloadAsPdf(): what it creates and saves, NoDoc on the early return.
downloadAsPdf ==
    IF Len(coloringPages(gallery)) = 0 THEN NoDoc
    ELSE save(addAll(newDoc, coloringPages(gallery), 0), PdfName)

\* A click on the PDF button.
DownloadPdf ==
    /\ pdfOut' = downloadAsPdf
    /\ lastEvent' = "downloadPdf"
    /\ UNCHANGED <<themeInput, isLoading, generateBtnDisabled, spinnerHidden,
                   btnText, errorHidden, errorText, placeholderHidden,
                   downloadControlsHidden, gallery, pc, theme, numPages, i,
                   requests, responses, outcome, timers>>
    /\ UNCHANGED jpgLog

\* ------------------------------------------------------ downloadAllJpgs

\* The fixed interval of the staggered downloads, in milliseconds (line 170).
Interval == 300

\* document.querySelectorAll('.coloring-page .download-icon'): the link of
\* every page, cover included, in document order.  A link is told apart by
\* the page it sits in.
downloadLinks(g) == [k \in 1..Len(g) |-> g[k]]

\* The delay of every timer is the same: the index is left out.
timerDelayNoIndex(index) == Interval

\* index * 300
timerDelay(index) == index * Interval

\* Every timer clicks the last link of the list.
setTimeoutsLastLink(links) ==
    [k \in 1..Len(links) |->
        [delay |-> timerDelay(k - 1), link |-> links[Len(links)], connected |-> TRUE]]

\* downloadLinks.forEach((link, index) => setTimeout(() => link.click(), ..)):
\* the timers the call sets, in the order it sets them.  At the call every
\* link is in the document.
setTimeouts(links) ==
    [k \in 1..Len(links) |->
        [delay |-> timerDelay(k - 1), link |-> links[k], connected |-> TRUE]]

\* A click on the JPG button.  The button is clicked again only when the
\* timers of the click before have all fired.
DownloadAllJpgs ==
    /\ timers = <<>>
    /\ timers' = setTimeouts(downloadLinks(gallery))
    /\ scheduled' = downloadLinks(gallery)
    /\ clickLog' = <<>>
    /\ lastEvent' = "downloadJpgs"
    /\ pdfOut' = NoDoc
    /\ UNCHANGED <<themeInput, isLoading, generateBtnDisabled, spinnerHidden,
                   btnText, errorHidden, errorText, placeholderHidden,
                   downloadControlsHidden, gallery, pc, theme, numPages, i,
                   requests, responses, outcome, san>>

\* The timer that is due first: the pending timers were all set at the same
\* moment, so it is the one of least delay, the older one of two equal delays.
NextTimer(ts) ==
    CHOOSE k \in DOMAIN ts :
        \A j \in DOMAIN ts :
            ts[k].delay < ts[j].delay \/ (ts[k].delay = ts[j].delay /\ k <= j)

\* The sequence ts without its k-th element.
Without(ts, k) == SubSeq(ts, 1, k - 1) \o SubSeq(ts, k + 1, Len(ts))

\* The timer due first fires: () => link.click() starts the download of the
\* link, whether its page is still in the document or not.
TimerFire ==
    /\ timers # <<>>
    /\ LET k == NextTimer(timers)
       IN  /\ clickLog' = Append(clickLog, [link      |-> timers[k].link,
                                            connected |-> timers[k].connected])
           /\ timers' = Without(timers, k)
    /\ lastEvent' = "timerFired"
    /\ pdfOut' = NoDoc
    /\ UNCHANGED <<themeInput, isLoading, generateBtnDisabled, spinnerHidden,
                   btnText, errorHidden, errorText, placeholderHidden,
                   downloadControlsHidden, gallery, pc, theme, numPages, i,
                   requests, responses, outcome, scheduled, san>>

\* -------------------------------------------------------- specification

Next ==
    \/ \E t \in Themes : EditTheme(t)
    \/ \E v \in PagesValues : Submit(v)
    \/ \E o \in Outcomes(1) : CoverResponse(o)
    \/ \E o \in Outcomes(batchSize) : BatchResponse(o)
    \/ DownloadPdf

Spec == Init /\ [][Next]_vars

\* Every request the run has issued is answered in the end, by images, by an
\* empty response or by an exception.
FairSpec ==
    /\ Spec
    /\ WF_vars(\E o \in Outcomes(1) : CoverResponse(o))
    /\ WF_vars(\E o \in Outcomes(batchSize) : BatchResponse(o))

\* ------------------------------------------- the file-name rule on its own

\* The characters of the texts put through the rule: two kinds of whitespace,
\* a letter and the underscore.
TextChars == {" ", "\t", "a", "_"}

\* The sequences over S of length n at most.
RECURSIVE SeqsUpTo(_, _)
SeqsUpTo(S, n) ==
    IF n = 0 THEN {<<>>}
    ELSE LET shorter == SeqsUpTo(S, n - 1)
         IN  shorter \cup
                 {Append(t, c) : t \in {u \in shorter : Len(u) = n - 1}, c \in S}

\* The texts put through the rule.
Texts == SeqsUpTo(TextChars, MaxTextLen)

\* Any text may be the value of the theme field when a file name is built.
TextInit ==
    /\ PageLoad
    /\ san \in {[stage |-> 0, input |-> t, once |-> <<>>, twice |-> <<>>] : t \in Texts}

\* The file name's theme part is built from the text.
SanitizeOnce ==
    /\ san.stage = 0
    /\ san' = [san EXCEPT !.stage = 1, !.once = Sanitize(san.input)]
    /\ UNCHANGED <<themeInput, isLoading, generateBtnDisabled, spinnerHidden,
                   btnText, errorHidden, errorText, placeholderHidden,
                   downloadControlsHidden, gallery, pc, theme, numPages, i,
                   requests, responses, outcome, lastEvent, pdfOut, timers,
                   scheduled, clickLog>>

\* The rule is applied to its own result.
SanitizeTwice ==
    /\ san.stage = 1
    /\ san' = [san EXCEPT !.stage = 2, !.twice = Sanitize(san.once)]
    /\ UNCHANGED <<themeInput, isLoading, generateBtnDisabled, spinnerHidden,
                   btnText, errorHidden, errorText, placeholderHidden,
                   downloadControlsHidden, gallery, pc, theme, numPages, i,
                   requests, responses, outcome, lastEvent, pdfOut, timers,
                   scheduled, clickLog>>

TextNext == SanitizeOnce \/ SanitizeTwice

TextSpec == TextInit /\ [][TextNext]_vars

\* Values of the pages field on the page with the JPG button.
JpgPagesValues == {Decimal(n) : n \in 0..MaxJpgPages}

JpgNext ==
    \/ \E t \in Themes : EditTheme(t)
    \/ \E v \in JpgPagesValues : Submit(v)
    \/ \E o \in Outcomes(1) : CoverResponse(o)
    \/ \E o \in Outcomes(batchSize) : BatchResponse(o)
    \/ DownloadAllJpgs
    \/ TimerFire

JpgSpec == Init /\ [][JpgNext]_vars

\* The browser runs every timer that is due.
JpgFairSpec == JpgSpec /\ WF_vars(TimerFire)

\* ================================================================ claims

\* The indices of the pages in the gallery.
GalleryIndices == {gallery[k].index : k \in DOMAIN gallery}

\* A response that carries no image: an empty list or no list at all.
EmptyResponse(o) == o.kind = "absent" \/ (o.kind = "images" /\ o.n = 0)

\* A call that failed: it threw, or its response carries no image.
FailedCall(o) == o.kind = "throw" \/ EmptyResponse(o)

\* numberOfImages of the requests of the latest run, in issuing order.
RequestSizes == [k \in DOMAIN requests |-> requests[k].numberOfImages]

\* C1: whenever a run ends successfully (the export controls become visible),
\* the gallery holds exactly numPages pages, their indices are exactly
\* 0..numPages-1, and the entry of index 0 is the cover.
C1_SuccessHasAllPages ==
    outcome = "success" =>
        /\ Len(gallery) = numPages
        /\ GalleryIndices = 0..(numPages - 1)
        /\ \A k \in DOMAIN gallery : gallery[k].index = 0 => gallery[k].isCover

\* ceil(k / 4)
CeilDiv4(k) == (k + 3) \div 4

\* The requests the claim C2 expects of a run for n pages: one image for the
\* cover, then ceil((n-1)/4) requests, the j-th for min(4, (n-1) - 4*(j-1)).
ExpectedSizes(n) ==
    [r \in 1..(1 + CeilDiv4(n - 1)) |->
        IF r = 1 THEN 1 ELSE Min(4, (n - 1) - 4 * (r - 2))]

\* C2: the requests a run has issued are, at every moment, the first ones of
\* the expected sequence (a cover request for 1 image, then page requests for
\* min(4, remaining) images), and a run in which no call failed has issued
\* exactly that sequence when it ends: 5 pages give [4], 9 give [4,4], 1 gives
\* no page request.
C2_BatchPartition ==
    outcome \in {"running", "success", "failed"} =>
        /\ Len(requests) <= Len(ExpectedSizes(numPages))
        /\ \A k \in DOMAIN requests :
              /\ RequestSizes[k] = ExpectedSizes(numPages)[k]
              /\ requests[k].kind = IF k = 1 THEN "cover" ELSE "pages"
        /\ outcome = "success" => RequestSizes = ExpectedSizes(numPages)
        /\ (outcome = "success" /\ numPages = 1) => RequestSizes = <<1>>
        /\ (outcome = "success" /\ numPages = 5) => RequestSizes = <<1, 4>>
        /\ (outcome = "success" /\ numPages = 9) => RequestSizes = <<1, 4, 4>>

\* C2 witness: a run for 9 pages ended successfully after three requests.
C2_Witness ==
    /\ outcome = "success"
    /\ numPages = 9
    /\ Len(requests) = 3
    /\ lastEvent = "batchResponse"

\* C3: when the cover request is answered with an empty or absent image list,
\* the run has failed, the gallery is empty, the run has issued one request
\* only, and the export controls are hidden.
C3_EmptyCoverFails ==
    (Len(responses) >= 1 /\ EmptyResponse(responses[1])) =>
        /\ outcome = "failed"
        /\ pc = "idle"
        /\ gallery = <<>>
        /\ Len(requests) = 1
        /\ downloadControlsHidden

\* C3 witness: the cover request of a run has just come back with an empty list.
C3_Witness ==
    /\ lastEvent = "coverResponse"
    /\ Len(responses) = 1
    /\ responses[1] = [kind |-> "images", n |-> 0]
    /\ numPages > 1

\* The step in which a batch request comes back failed.
BatchFailsStep ==
    /\ pc = "batch"
    /\ lastEvent' = "batchResponse"
    /\ Len(responses') = Len(responses) + 1
    /\ FailedCall(responses'[Len(responses')])

\* C4: when batch j comes back empty, absent or thrown, the step leaves the
\* gallery (the cover and the pages of batches 1..j-1) as it is, issues no
\* request, ends the run, shows the generic error message and leaves the
\* export controls hidden; and as long as a failed response is on record, it
\* is the answer to the last request the run issued (nothing after it, no
\* retry).
C4_BatchFailureAborts ==
    /\ [][BatchFailsStep =>
            /\ gallery' = gallery
            /\ requests' = requests
            /\ pc' = "idle"
            /\ outcome' = "failed"
            /\ ~errorHidden'
            /\ errorText' = GenericErrorMessage
            /\ downloadControlsHidden']_vars
    /\ [](\A k \in DOMAIN responses :
            FailedCall(responses[k]) => (Len(requests) = k /\ pc = "idle"))

\* C4 witness: the second batch of a run has just failed and the pages of the
\* first batch are in the gallery.
C4_Witness ==
    /\ lastEvent = "batchResponse"
    /\ outcome = "failed"
    /\ Len(responses) = 3
    /\ Len(gallery) > 1
    /\ downloadControlsHidden

\* What a submit while a run is in progress must leave alone.
runState == <<isLoading, generateBtnDisabled, gallery, pc, theme, numPages, i,
              requests, responses, outcome, downloadControlsHidden,
              errorHidden, errorText>>

\* C5: a submit while isLoading is true issues no request and leaves the
\* gallery and the run as they are; isLoading is true exactly while a run is
\* suspended at a request, exactly one request is then unanswered (none
\* otherwise), and no image is in the gallery twice.
C5_SubmitWhileBusyIgnored ==
    /\ [][\A v \in PagesValues :
            (isLoading /\ Submit(v)) => UNCHANGED runState]_vars
    /\ [](isLoading <=> pc # "idle")
    /\ [](Len(requests) - Len(responses) = IF pc = "idle" THEN 0 ELSE 1)
    /\ [](\A j, k \in DOMAIN gallery : gallery[j].src = gallery[k].src => j = k)

\* C5 witness: a submit has just been ignored while a batch request was
\* outstanding and the cover was in the gallery.
C5_Witness ==
    /\ lastEvent = "submitIgnored"
    /\ pc = "batch"
    /\ isLoading
    /\ Len(gallery) >= 1
    /\ Trim(themeInput) # <<>>

\* C6: once a run has ended (success, empty response or thrown call) and no
\* new one has started, isLoading is false and the generate button enabled,
\* and a submit with a valid theme and page count starts a new run.
C6_BusyClearedOnExit ==
    outcome \in {"success", "failed"} =>
        /\ pc = "idle"
        /\ ~isLoading
        /\ ~generateBtnDisabled
        /\ Trim(themeInput) # <<>> =>
              ENABLED (Submit(<<"2">>) /\ lastEvent' = "submitStart" /\ isLoading')

\* C6 witness: a run has just ended because a page request threw.
C6_Witness ==
    /\ lastEvent = "batchResponse"
    /\ outcome = "failed"
    /\ responses[Len(responses)].kind = "throw"
    /\ ~isLoading

\* C7: the export controls are visible only when no run is in progress and
\* the run started last ended successfully.
C7_ExportOnlyAfterSuccess ==
    ~downloadControlsHidden => (pc = "idle" /\ ~isLoading /\ outcome = "success")

\* C7 witness: a failed run has left pages in the gallery, an invalid submit
\* followed, and the export controls are hidden.
C7_Witness ==
    /\ outcome = "failed"
    /\ Len(gallery) >= 2
    /\ lastEvent = "submitInvalid"
    /\ downloadControlsHidden

\* The theme is empty after trimming, or the page count parseInt reads from
\* the pages field is no positive integer.
InvalidInput(t, v) ==
    \/ \A k \in DOMAIN t : t[k] \in WhiteSpace
    \/ ParseInt(v).nan
    \/ ParseInt(v).val < 1

\* C8: a submit with an invalid input while no run is in progress starts no
\* run and issues no request: busy flag, gallery, export controls and the run
\* are left as they are, and the validation message is shown.
C8_InvalidSubmitStartsNothing ==
    [][\A v \in PagesValues :
          (~isLoading /\ InvalidInput(themeInput, v) /\ Submit(v)) =>
              /\ UNCHANGED <<isLoading, generateBtnDisabled, gallery,
                             downloadControlsHidden, pc, requests, responses,
                             outcome>>
              /\ ~errorHidden'
              /\ errorText' = InvalidInputMessage
              /\ lastEvent' = "submitInvalid"]_vars

\* C8 witness: an invalid page count was submitted with a valid theme after a
\* successful run; the gallery and the export controls are still there.
C8_Witness ==
    /\ lastEvent = "submitInvalid"
    /\ Trim(themeInput) # <<>>
    /\ outcome = "success"
    /\ Len(gallery) >= 2
    /\ ~downloadControlsHidden
    /\ ~isLoading
    /\ errorText = InvalidInputMessage

\* C9: in every state the pages of the gallery, in document order, have the
\* indices 0, 1, .., m-1, and the page of index 0 is the only cover.
C9_ContiguousIndices ==
    \A k \in DOMAIN gallery :
        /\ gallery[k].index = k - 1
        /\ gallery[k].isCover <=> (k = 1)

\* The images of the non-cover pages of the gallery g, in gallery order.
RECURSIVE NonCoverSrcs(_)
NonCoverSrcs(g) ==
    IF g = <<>> THEN <<>>
    ELSE (IF Head(g).isCover THEN <<>> ELSE <<Head(g).src>>) \o NonCoverSrcs(Tail(g))

\* C10: downloadAsPdf on a gallery with k non-cover pages creates and saves
\* nothing when k = 0, and otherwise makes one document of exactly k pages
\* with k - 1 addPage calls, the non-cover images one per page in gallery
\* order, and saves it once.
C10_PdfPages ==
    lastEvent = "downloadPdf" =>
        LET imgs == NonCoverSrcs(gallery)
            k    == Len(imgs)
        IN  IF k = 0
            THEN ~pdfOut.created /\ pdfOut.saved = <<>> /\ pdfOut.pages = <<>>
            ELSE /\ pdfOut.created
                 /\ Len(pdfOut.pages) = k
                 /\ pdfOut.addPageCalls = k - 1
                 /\ \A p \in 1..k : pdfOut.pages[p] = <<imgs[p]>>
                 /\ Len(pdfOut.saved) = 1

\* C10 witness: a document of several pages was made from a gallery that
\* holds a cover.
C10_Witness ==
    /\ lastEvent = "downloadPdf"
    /\ Len(pdfOut.pages) >= 3
    /\ gallery[1].isCover
    /\ outcome = "success"

\* The other case of C10: the export after a successful run for one page.
C10_WitnessNoPages ==
    /\ lastEvent = "downloadPdf"
    /\ outcome = "success"
    /\ numPages = 1
    /\ ~pdfOut.created

\* The links the timers have clicked since the latest downloadAllJpgs call.
ClickedLinks == [k \in DOMAIN clickLog |-> clickLog[k].link]

\* C11: a downloadAllJpgs call on a gallery of m pages sets exactly m timers,
\* the k-th (from 0, in gallery order) for the k-th page's link at delay
\* k * 300, none when m = 0; the downloads fire in gallery order, the cover
\* first; and after the call all m downloads are eventually triggered.
C11_StaggeredDownloads ==
    /\ [][lastEvent' = "downloadJpgs" =>
            /\ Len(timers') = Len(gallery)
            /\ \A k \in DOMAIN timers' :
                  /\ timers'[k].delay = (k - 1) * 300
                  /\ timers'[k].link = gallery[k]]_vars
    /\ [](/\ Len(clickLog) + Len(timers) = Len(scheduled)
          /\ ClickedLinks = SubSeq(scheduled, 1, Len(clickLog))
          /\ clickLog # <<>> => clickLog[1].link.isCover)
    /\ \A m \in 0..MaxJpgPages :
          (lastEvent = "downloadJpgs" /\ Len(scheduled) = m)
              ~> (timers = <<>> /\ Len(clickLog) = m /\ ClickedLinks = scheduled)

\* C11 witness: the downloads of a gallery of several pages have all fired.
C11_Witness ==
    /\ lastEvent = "timerFired"
    /\ timers = <<>>
    /\ Len(clickLog) >= 2
    /\ ClickedLinks = scheduled

\* The other case of C11: the JPG button clicked on an empty gallery.
C11_WitnessNoPages ==
    /\ lastEvent = "downloadJpgs"
    /\ gallery = <<>>
    /\ timers = <<>>

\* C17 as stated: the page of every download a timer fires is in the rendered
\* gallery at the moment it fires.
C17_FiredPageInGallery ==
    (lastEvent = "timerFired" /\ clickLog # <<>>) =>
        /\ clickLog[Len(clickLog)].connected
        /\ \E k \in DOMAIN gallery : gallery[k] = clickLog[Len(clickLog)].link

\* C17, amended: every timer is set for the link of a page that is in the
\* gallery when downloadAllJpgs is called; the download a timer fires is that
\* of a pending timer; and the page of a pending timer leaves the document
\* only in the step of a submit that starts a run and empties the gallery.
C17_FiredPageWasInGallery ==
    /\ [][lastEvent' = "downloadJpgs" =>
            /\ Len(timers') = Len(gallery)
            /\ \A k \in DOMAIN timers' :
                  timers'[k].link = gallery[k] /\ timers'[k].connected]_vars
    /\ [][lastEvent' = "timerFired" =>
            \E k \in DOMAIN timers :
                /\ clickLog' = Append(clickLog, [link      |-> timers[k].link,
                                                 connected |-> timers[k].connected])
                /\ timers' = Without(timers, k)]_vars
    /\ [][(\E k \in DOMAIN timers : timers[k].connected)
            /\ Len(timers') = Len(timers)
            /\ (\E k \in DOMAIN timers : ~timers'[k].connected)
          => (lastEvent' = "submitStart" /\ gallery' = <<>>)]_vars
    /\ [](\A k \in DOMAIN timers :
            timers[k].connected => \E j \in DOMAIN gallery : gallery[j] = timers[k].link)

\* C17 witness: a download has fired for a page that a new run had removed
\* from the gallery.
C17_Witness ==
    /\ lastEvent = "timerFired"
    /\ ~clickLog[Len(clickLog)].connected
    /\ outcome = "running"

\* C12: at most one request is unanswered at any time; a request is issued
\* either by the submit that starts a run, when none is unanswered, or in the
\* very step that receives the answer to the request before it.
C12_OneRequestOutstanding ==
    /\ [](Len(requests) - Len(responses) \in {0, 1})
    /\ [][requests' # requests =>
            \/ /\ lastEvent' = "submitStart"
               /\ Len(responses) = Len(requests)
               /\ Len(requests') = 1
               /\ responses' = <<>>
            \/ /\ lastEvent' \in {"coverResponse", "batchResponse"}
               /\ Len(requests') = Len(requests) + 1
               /\ SubSeq(requests', 1, Len(requests)) = requests
               /\ Len(responses') = Len(requests)
               /\ requests'[Len(requests')].kind = "pages"]_vars

\* C12 witness: the second batch request is out, the answers to the cover
\* request and to the first batch request are in.
C12_Witness ==
    /\ pc = "batch"
    /\ Len(requests) = 3
    /\ Len(responses) = 2

\* C13: the submit that starts a run empties the gallery and hides the error
\* message and the export controls in the step that issues the cover request;
\* and every page in the gallery shows an image of an answer the latest run
\* has received, under the latest run's theme, no image twice.
C13_NewRunDiscardsOld ==
    /\ [][lastEvent' = "submitStart" =>
            /\ gallery' = <<>>
            /\ errorHidden'
            /\ downloadControlsHidden'
            /\ responses' = <<>>
            /\ Len(requests') = 1
            /\ requests'[1].kind = "cover"]_vars
    /\ [](\A k \in DOMAIN gallery :
            /\ gallery[k].src.req \in DOMAIN responses
            /\ responses[gallery[k].src.req].kind = "images"
            /\ gallery[k].src.pos \in 1..responses[gallery[k].src.req].n
            /\ gallery[k].alt = theme
            /\ \A j \in DOMAIN gallery : gallery[j].src = gallery[k].src => j = k)

\* C13 witness: a run has started after a failed one (whose message is still
\* the text of the hidden error element) and has rendered its cover.
C13_Witness ==
    /\ outcome = "running"
    /\ errorText = GenericErrorMessage
    /\ errorHidden
    /\ Len(gallery) = 1
    /\ pc = "batch"

\* C14: a run that has started ends in success or failure; it issues at most
\* 1 + ceil((numPages-1)/4) requests; it ends only in the step that receives
\* an answer; and after a failure it issues no request.
C14_RunTerminates ==
    /\ (outcome = "running") ~> (outcome \in {"success", "failed"})
    /\ [][outcome' \in {"running", "success", "failed"} =>
            Len(requests') <= 1 + CeilDiv4(numPages' - 1)]_vars
    /\ [][(pc # "idle" /\ pc' = "idle") =>
            /\ lastEvent' \in {"coverResponse", "batchResponse"}
            /\ outcome' \in {"success", "failed"}]_vars
    /\ [][outcome = "failed" =>
            (requests' = requests \/ lastEvent' = "submitStart")]_vars

\* C14 witness: a run for several batches has ended in failure at its last
\* request.
C14_Witness ==
    /\ outcome = "failed"
    /\ numPages >= 6
    /\ Len(requests) = 1 + CeilDiv4(numPages - 1)
    /\ Len(responses) = Len(requests)
    /\ pc = "idle"

\* The number of pages the answer o to the r-th request of a run adds.
RenderedBy(o, r) ==
    IF o.kind = "images" /\ o.n > 0 THEN (IF r = 1 THEN 1 ELSE o.n) ELSE 0

\* C15: the step that receives an answer appends its images to the gallery in
\* the order of the answer, the cover at index 0 and the image at position p
\* of a batch at index i + p (batch start + local index + 1), whether or not
\* the step goes on to issue the next request; while a run is in progress no
\* page leaves the gallery; and every page stays at the index of its place in
\* its batch.
C15_ProgressiveRendering ==
    /\ [][lastEvent' \in {"coverResponse", "batchResponse"} =>
            LET r == Len(requests)
                o == responses'[Len(responses')]
                n == RenderedBy(o, r)
            IN  /\ Len(gallery') = Len(gallery) + n
                /\ SubSeq(gallery', 1, Len(gallery)) = gallery
                /\ \A p \in 1..n :
                      /\ gallery'[Len(gallery) + p].src = [req |-> r, pos |-> p]
                      /\ gallery'[Len(gallery) + p].index = IF r = 1 THEN 0 ELSE i + p]_vars
    /\ [][pc # "idle" =>
            (Len(gallery') >= Len(gallery)
               /\ SubSeq(gallery', 1, Len(gallery)) = gallery)]_vars
    /\ [](\A k \in DOMAIN gallery :
            gallery[k].index =
                IF gallery[k].isCover THEN 0
                ELSE 4 * (gallery[k].src.req - 2) + (gallery[k].src.pos - 1) + 1)

\* C15 witness: the pages of the first batch are in the gallery while the
\* request of the second batch is unanswered.
C15_Witness ==
    /\ lastEvent = "batchResponse"
    /\ pc = "batch"
    /\ Len(gallery) >= 3
    /\ Len(requests) = Len(responses) + 1

\* C16: every page in the gallery carries a download name built from the
\* sanitized theme its run was submitted with.
C16_NameFromRunTheme ==
    \A k \in DOMAIN gallery : gallery[k].download.theme = Sanitize(theme)

\* The positions of the characters of s that are no whitespace.
Core(s) == {k \in DOMAIN s : s[k] \notin WhiteSpace}

\* The least and the greatest element of a non-empty set of numbers.
Least(S) == CHOOSE k \in S : \A j \in S : k <= j

Greatest(S) == CHOOSE k \in S : \A j \in S : k >= j

\* C18: the sanitized text holds no whitespace; it begins and ends with the
\* first and the last non-whitespace character of the text (it is empty when
\* there is none), so outer whitespace leaves no underscore; every run of
\* whitespace between them has become one character; sanitizing the result
\* again changes nothing; and " My   Theme " becomes "My_Theme".
C18_SanitizeIdempotent ==
    /\ Sanitize(<<" ", "M", "y", " ", " ", " ", "T", "h", "e", "m", "e", " ">>)
          = <<"M", "y", "_", "T", "h", "e", "m", "e">>
    /\ san.stage >= 1 =>
          LET s == san.input
              r == san.once
          IN  /\ \A k \in DOMAIN r : r[k] \notin WhiteSpace
              /\ IF Core(s) = {} THEN r = <<>>
                 ELSE /\ r # <<>>
                      /\ r[1] = s[Least(Core(s))]
                      /\ r[Len(r)] = s[Greatest(Core(s))]
                      /\ Len(r) = Cardinality(Core(s))
                                    + Cardinality({k \in Core(s) :
                                          k < Greatest(Core(s)) /\ s[k + 1] \in WhiteSpace})
    /\ san.stage = 2 => san.twice = san.once

\* C18 witness: a text with whitespace around and inside it has been
\* sanitized twice.
C18_Witness ==
    /\ san.stage = 2
    /\ san.input = <<" ", "a", "\t">>
    /\ san.once = <<"a">>
    /\ san.twice = <<"a">>

====
